---- MODULE Spec2Model ----
(***************************************************************************)
(* The global query state of the hyperglass UI (hooks/useLGState.ts) and   *)
(* the Path view that reads it (components/path/path.tsx).                 *)
(*                                                                         *)
(* The store is one record, `state`, with the sixteen fields of LGState.   *)
(* The methods of MethodsInstance are operators over that record; each     *)
(* call of a method is an action that records the call in op/arg/ret.      *)
(***************************************************************************)
EXTENDS Integers, Sequences, FiniteSets, TLC

VARIABLES
    state,    \* the value held by LGState
    pending,  \* responses of submitted queries that have not been written yet
    batch,    \* device -> response of the queries submitted since the last reset
    op,       \* the operation that produced this state
    arg,      \* its argument
    ret,      \* its return value
    prev,     \* the operation before it
    input     \* the value a caller holds and hands to stateExporter

vars == <<state, pending, batch, op, arg, ret, prev, input>>

-----------------------------------------------------------------------------
(* JavaScript values that are not strings, booleans or sequences.          *)

Null == [t |-> "null"]
NoVal == [t |-> "none"]      \* no argument / no return value (void)

(* Two directives (query types) with the same id are told apart by name.   *)
Directive(id, name) == [id |-> id, name |-> name]

(* A select option as kept in selections.                                  *)
Option(value) == [label |-> value, value |-> value]

(* A query response.                                                       *)
Response(output, level) == [output |-> output, level |-> level]

EmptyResponses == [d \in {} |-> Null]

-----------------------------------------------------------------------------
(* The initial value of the store.                                         *)

LGState ==
    [ selections |-> [queryLocation |-> <<>>, queryType |-> Null,
                      queryVrf |-> Null, queryGroup |-> Null],
      resolvedIsOpen |-> FALSE,
      isSubmitting |-> FALSE,
      availableGroups |-> <<>>,
      availableTypes |-> <<>>,
      directive |-> Null,
      displayTarget |-> "",
      queryLocation |-> <<>>,
      btnLoading |-> FALSE,
      queryTarget |-> "",
      queryGroup |-> "",
      queryType |-> "",
      availVrfs |-> <<>>,
      responses |-> EmptyResponses,
      queryVrf |-> "",
      families |-> <<>> ]

Fields == DOMAIN LGState

(* State.merge on an object value: every key of the patch replaces the     *)
(* value under that key, the other keys are kept (a shallow merge).        *)
merge(s, patch) ==
    [f \in DOMAIN s |-> IF f \in DOMAIN patch THEN patch[f] ELSE s[f]]

(* State.set on one field.                                                 *)
set(s, f, v) == [s EXCEPT ![f] = v]

-----------------------------------------------------------------------------
(* MethodsInstance                                                         *)

resolvedOpen(s) == set(s, "resolvedIsOpen", TRUE)

resolvedClose(s) == set(s, "resolvedIsOpen", FALSE)

(* A getResponse that never finds the key.                                 *)
getResponse_NoLookup(s, device) == Null

(* A getResponse that answers only while a submission is under way.        *)
getResponse_WhileSubmitting(s, device) ==
    IF s.isSubmitting /\ device \in DOMAIN s.responses
    THEN s.responses[device]
    ELSE Null

(* A getResponse that reads some key of the mapping, not the device's.     *)
getResponse_AnyKey(s, device) ==
    IF device \in DOMAIN s.responses
    THEN s.responses[CHOOSE k \in DOMAIN s.responses : TRUE]
    ELSE Null

getResponse(s, device) ==
    IF device \in DOMAIN s.responses
    THEN s.responses[device]
    ELSE Null

(* all(...iter) of ~/util: true when every element is truthy.              *)
all(iter) == \A i \in 1..Len(iter) : iter[i]

(* formReady with the commented-out queryVrf test switched back on.        *)
formReady_WithVrf(s) ==
    s.isSubmitting /\
    all(<< s.queryVrf # "",
           s.queryType # "",
           s.queryGroup # "",
           s.queryTarget # "",
           Len(s.queryLocation) # 0 >>)

formReady(s) ==
    s.isSubmitting /\
    all(<< s.queryType # "",
           s.queryGroup # "",
           s.queryTarget # "",
           Len(s.queryLocation) # 0 >>)

ResetPatch ==
    [ queryVrf |-> "",
      families |-> <<>>,
      queryType |-> "",
      queryGroup |-> "",
      responses |-> EmptyResponses,
      queryTarget |-> "",
      queryLocation |-> <<>>,
      displayTarget |-> "",
      btnLoading |-> FALSE,
      isSubmitting |-> FALSE,
      resolvedIsOpen |-> FALSE,
      availVrfs |-> <<>>,
      availableGroups |-> <<>>,
      availableTypes |-> <<>>,
      selections |-> [queryLocation |-> <<>>, queryType |-> Null,
                      queryVrf |-> Null, queryGroup |-> Null] ]

(* A resetForm that leaves the submitted query in place.                   *)
resetForm_KeepQuery(s) ==
    merge(s, [f \in DOMAIN ResetPatch \
                     {"isSubmitting", "queryType", "queryGroup", "queryTarget",
                      "queryLocation"} |-> ResetPatch[f]])

(* A resetForm that forgets the responses.                                 *)
resetForm_KeepResponses(s) ==
    merge(s, [f \in DOMAIN ResetPatch \ {"responses"} |-> ResetPatch[f]])

(* A resetForm that replaces the whole store by its initial value.         *)
resetForm_All(s) == LGState

resetForm(s) == merge(s, ResetPatch)

-----------------------------------------------------------------------------
(* getDirective: the State nodes of availableTypes are filtered by id and  *)
(* the first one is returned.  A node is its path (the 0-based index) and  *)
(* the value it holds.                                                     *)

Nodes(list) == [i \in 1..Len(list) |-> [path |-> i - 1, value |-> list[i]]]

(* A getDirective that destructures the last match instead of the first.   *)
getDirective_Last(s, name) ==
    LET matches == SelectSeq(Nodes(s.availableTypes), LAMBDA t : t.value.id = name)
    IN  IF Len(matches) # 0 THEN matches[Len(matches)] ELSE Null

getDirective(s, name) ==
    LET matches == SelectSeq(Nodes(s.availableTypes), LAMBDA t : t.value.id = name)
    IN  IF Len(matches) # 0 THEN matches[1] ELSE Null

-----------------------------------------------------------------------------
(* Values handed to stateExporter.  Every value is [t |-> tag, v |-> ...]. *)

Undefined == [t |-> "undefined"]
Function == [t |-> "function"]
NaN == [t |-> "nan"]
Cyclic == [t |-> "cyclic"]          \* an object with a property that is itself
Thrown == [t |-> "thrown"]          \* the call ended in an exception
JBool(b) == [t |-> "bool", v |-> b]
JNum(n) == [t |-> "num", v |-> n]
JStr(x) == [t |-> "str", v |-> x]
JArr(items) == [t |-> "arr", v |-> items]
JObj(members) == [t |-> "obj", v |-> members]   \* <<key, value>> in insertion order

(* JSON text is a sequence of tokens.                                      *)
Punct(c) == [t |-> "p", v |-> c]
Lit(w) == [t |-> "lit", v |-> w]
IsPunct(tk, c) == tk.t = "p" /\ tk.v = c

Text(toks) == [k |-> "text", toks |-> toks]
NoText == [k |-> "undefined"]       \* JSON.stringify returned undefined
Raised == [k |-> "throw"]

RECURSIVE stringify(_), stringifyArray(_, _), stringifyObject(_, _, _)

(* JSON.stringify (SerializeJSONProperty).                                 *)
stringify(x) ==
    CASE x.t = "null" -> Text(<<Lit("null")>>)
      [] x.t = "bool" -> Text(<<Lit(IF x.v THEN "true" ELSE "false")>>)
      [] x.t = "num" -> Text(<<JNum(x.v)>>)
      [] x.t = "nan" -> Text(<<Lit("null")>>)
      [] x.t = "str" -> Text(<<JStr(x.v)>>)
      [] x.t = "undefined" -> NoText
      [] x.t = "function" -> NoText
      [] x.t = "cyclic" -> Raised
      [] x.t = "arr" -> stringifyArray(x.v, <<Punct("[")>>)
      [] x.t = "obj" -> stringifyObject(x.v, <<Punct("{")>>, TRUE)

(* SerializeJSONArray: an element without a text is written as null.       *)
stringifyArray(items, acc) ==
    IF items = <<>> THEN Text(Append(acc, Punct("]")))
    ELSE LET e == stringify(Head(items))
             sep == IF Len(acc) = 1 THEN <<>> ELSE <<Punct(",")>>
         IN  CASE e.k = "throw" -> Raised
               [] e.k = "undefined" ->
                    stringifyArray(Tail(items), acc \o sep \o <<Lit("null")>>)
               [] e.k = "text" ->
                    stringifyArray(Tail(items), acc \o sep \o e.toks)

(* SerializeJSONObject: a member without a text is left out.               *)
stringifyObject(members, acc, first) ==
    IF members = <<>> THEN Text(Append(acc, Punct("}")))
    ELSE LET m == Head(members)
             e == stringify(m[2])
             sep == IF first THEN <<>> ELSE <<Punct(",")>>
         IN  CASE e.k = "throw" -> Raised
               [] e.k = "undefined" -> stringifyObject(Tail(members), acc, first)
               [] e.k = "text" ->
                    stringifyObject(Tail(members),
                                    acc \o sep \o <<JStr(m[1]), Punct(":")>> \o e.toks,
                                    FALSE)

Parsed(val, next) == [k |-> "value", val |-> val, next |-> next]
SyntaxError == [k |-> "throw"]

(* CreateDataProperty: a repeated key keeps its place and takes the value. *)
PutMember(members, key, val) ==
    IF \E i \in 1..Len(members) : members[i][1] = key
    THEN [i \in 1..Len(members) |->
             IF members[i][1] = key THEN <<key, val>> ELSE members[i]]
    ELSE Append(members, <<key, val>>)

RECURSIVE parseValue(_, _), parseElements(_, _, _), parseMembers(_, _, _)

parseValue(toks, i) ==
    IF i > Len(toks) THEN SyntaxError
    ELSE LET tk == toks[i] IN
         CASE tk.t = "lit" ->
                Parsed(CASE tk.v = "null" -> Null
                         [] tk.v = "true" -> JBool(TRUE)
                         [] tk.v = "false" -> JBool(FALSE), i + 1)
           [] tk.t = "num" -> Parsed(JNum(tk.v), i + 1)
           [] tk.t = "str" -> Parsed(JStr(tk.v), i + 1)
           [] IsPunct(tk, "[") ->
                IF i < Len(toks) /\ IsPunct(toks[i + 1], "]")
                THEN Parsed(JArr(<<>>), i + 2)
                ELSE parseElements(toks, i + 1, <<>>)
           [] IsPunct(tk, "{") ->
                IF i < Len(toks) /\ IsPunct(toks[i + 1], "}")
                THEN Parsed(JObj(<<>>), i + 2)
                ELSE parseMembers(toks, i + 1, <<>>)
           [] OTHER -> SyntaxError

parseElements(toks, i, acc) ==
    LET e == parseValue(toks, i) IN
    IF e.k = "throw" \/ e.next > Len(toks) THEN SyntaxError
    ELSE CASE IsPunct(toks[e.next], ",") ->
                parseElements(toks, e.next + 1, Append(acc, e.val))
           [] IsPunct(toks[e.next], "]") ->
                Parsed(JArr(Append(acc, e.val)), e.next + 1)
           [] OTHER -> SyntaxError

parseMembers(toks, i, acc) ==
    IF i + 1 > Len(toks) \/ toks[i].t # "str" \/ ~IsPunct(toks[i + 1], ":")
    THEN SyntaxError
    ELSE LET e == parseValue(toks, i + 2) IN
         IF e.k = "throw" \/ e.next > Len(toks) THEN SyntaxError
         ELSE CASE IsPunct(toks[e.next], ",") ->
                     parseMembers(toks, e.next + 1, PutMember(acc, toks[i].v, e.val))
                [] IsPunct(toks[e.next], "}") ->
                     Parsed(JObj(PutMember(acc, toks[i].v, e.val)), e.next + 1)
                [] OTHER -> SyntaxError

(* JSON.parse: an argument that is no text is read as the word undefined,  *)
(* which is no JSON; text left over after the value is an error too.       *)
parse(text) ==
    IF text.k # "text" THEN SyntaxError
    ELSE LET r == parseValue(text.toks, 1) IN
         IF r.k = "value" /\ r.next = Len(text.toks) + 1 THEN r ELSE SyntaxError

(* A stateExporter whose catch block rethrows.                             *)
stateExporter_Rethrow(obj) ==
    IF obj = Null THEN Null
    ELSE LET text == stringify(obj) IN
         IF text.k = "throw" THEN Thrown
         ELSE LET r == parse(text) IN
              IF r.k = "throw" THEN Thrown ELSE r.val

stateExporter(obj) ==
    IF obj = Null THEN Null
    ELSE LET text == stringify(obj) IN
         IF text.k = "throw" THEN Null
         ELSE LET r == parse(text) IN
              IF r.k = "throw" THEN Null ELSE r.val

-----------------------------------------------------------------------------
(* The Path view: the body of the modal is the chart when the response is  *)
(* not null and the loading skeleton otherwise.  The view destructures     *)
(* getResponse from useLGState(); it is read here as the getResponse of    *)
(* the methods plugin.                                                     *)

Path(s, device) ==
    LET response == getResponse(s, device)
    IN  IF response # Null THEN "Chart" ELSE "Skeleton"

-----------------------------------------------------------------------------
(* The values the operations are tried on.                                 *)

MaxTypes == 3       \* longest availableTypes written
MaxSize == 3        \* most nodes in a value handed to stateExporter
MaxPending == 2     \* most responses in flight at once

Devices == {"router1", "router2"}

ResponseValues ==
    { Null,
      Response("BGP routing table entry for 1.1.1.0/24", "success"),
      Response("request timed out", "danger") }

Directives ==
    { Directive("bgp_route", "BGP Route"),
      Directive("bgp_route", "BGP Route (copy)"),
      Directive("ping", "Ping") }

DirectiveNames == {"bgp_route", "ping", "traceroute"}

RECURSIVE SeqsUpTo(_, _)
SeqsUpTo(S, n) ==
    IF n = 0 THEN {<<>>}
    ELSE LET shorter == SeqsUpTo(S, n - 1)
         IN  shorter \cup {Append(q, x) : q \in {r \in shorter : Len(r) = n - 1}, x \in S}

FieldValues(f) ==
    CASE f = "selections" ->
           { LGState.selections,
             [queryLocation |-> <<"router1">>, queryType |-> Option("bgp_route"),
              queryVrf |-> Option("default"), queryGroup |-> Option("edge")] }
      [] f \in {"resolvedIsOpen", "isSubmitting", "btnLoading"} -> BOOLEAN
      [] f = "availableGroups" -> {<<>>, <<"edge">>}
      [] f = "availableTypes" -> {<<>>, <<Directive("bgp_route", "BGP Route")>>}
      [] f = "directive" -> {Null, Directive("bgp_route", "BGP Route")}
      [] f = "displayTarget" -> {"", "1.1.1.1"}
      [] f = "queryLocation" -> {<<>>, <<"router1">>}
      [] f = "queryTarget" -> {"", "1.1.1.1"}
      [] f = "queryGroup" -> {"", "edge"}
      [] f = "queryType" -> {"", "bgp_route"}
      [] f = "queryVrf" -> {"", "default"}
      [] f = "availVrfs" -> {<<>>, <<"default">>}
      [] f = "responses" ->
           {EmptyResponses, [d \in {"router1"} |-> Response("ok", "success")]}
      [] f = "families" -> {<<>>, <<4>>}

FormFields ==
    {"isSubmitting", "queryType", "queryGroup", "queryTarget", "queryLocation",
     "queryVrf", "responses"}

Atoms == {Null, Undefined, Function, NaN, Cyclic, JBool(TRUE), JNum(1), JStr("a")}

MemberKeys == <<"a", "b">>

RECURSIVE ValuesOfSize(_), ItemsOfSize(_), MembersOfSize(_, _)

(* The values with exactly n nodes.                                        *)
ValuesOfSize(n) ==
    (IF n = 1 THEN Atoms ELSE {})
        \cup {JArr(b) : b \in ItemsOfSize(n - 1)}
        \cup {JObj(b) : b \in MembersOfSize(n - 1, MemberKeys)}

ItemsOfSize(m) ==
    IF m = 0 THEN {<<>>}
    ELSE UNION {{<<x>> \o r : x \in ValuesOfSize(k), r \in ItemsOfSize(m - k)} : k \in 1..m}

MembersOfSize(m, keys) ==
    IF m = 0 THEN {<<>>}
    ELSE IF keys = <<>> THEN {}
    ELSE MembersOfSize(m, Tail(keys))
           \cup UNION {{<< <<Head(keys), x>> >> \o r :
                           x \in ValuesOfSize(k), r \in MembersOfSize(m - k, Tail(keys))} :
                       k \in 1..m}

JsValues == UNION {ValuesOfSize(n) : n \in 1..MaxSize}

-----------------------------------------------------------------------------
(* Actions.                                                                *)

Call(o, a, r) == op' = o /\ arg' = a /\ ret' = r /\ prev' = op /\ input' = input

InitWith(x) ==
    /\ state = LGState
    /\ pending = {}
    /\ batch = EmptyResponses
    /\ op = "init"
    /\ arg = NoVal
    /\ ret = NoVal
    /\ prev = "init"
    /\ input = x

Init == InitWith(Undefined)

(* The caller may hold any value.                                          *)
InitExport == \E x \in JsValues : InitWith(x)

(* A direct assignment to one field of the store.                          *)
Write(f, v) ==
    /\ state' = set(state, f, v)
    /\ Call("set", NoVal, NoVal)
    /\ UNCHANGED <<pending, batch>>

WriteField == \E f \in Fields : \E v \in FieldValues(f) : Write(f, v)

WriteFormField == \E f \in FormFields : \E v \in FieldValues(f) : Write(f, v)

WriteAvailableTypes == \E v \in SeqsUpTo(Directives, MaxTypes) : Write("availableTypes", v)

ResolvedOpen ==
    /\ state' = resolvedOpen(state)
    /\ Call("resolvedOpen", NoVal, NoVal)
    /\ UNCHANGED <<pending, batch>>

ResolvedClose ==
    /\ state' = resolvedClose(state)
    /\ Call("resolvedClose", NoVal, NoVal)
    /\ UNCHANGED <<pending, batch>>

(* resetForm; the store knows nothing of the queries in flight, which stay *)
(* in flight and from now on belong to an earlier form.                    *)
ResetForm ==
    /\ state' = resetForm(state)
    /\ pending' = {[m EXCEPT !.stale = TRUE] : m \in pending}
    /\ batch' = EmptyResponses
    /\ Call("resetForm", NoVal, NoVal)

FormReady ==
    /\ Call("formReady", NoVal, formReady(state))
    /\ UNCHANGED <<state, pending, batch>>

GetResponse ==
    \E d \in Devices :
        /\ Call("getResponse", d, getResponse(state, d))
        /\ UNCHANGED <<state, pending, batch>>

GetDirective ==
    \E name \in DirectiveNames :
        /\ Call("getDirective", name, getDirective(state, name))
        /\ UNCHANGED <<state, pending, batch>>

StateExporter ==
    /\ Call("stateExporter", input, stateExporter(input))
    /\ UNCHANGED <<state, pending, batch>>

RenderPath ==
    \E d \in Devices :
        /\ Call("Path", d, Path(state, d))
        /\ UNCHANGED <<state, pending, batch>>

(* The form is filled in and submitted.                                    *)
SubmitForm ==
    \E locs \in {<<"router1">>, <<"router2">>, <<"router1", "router2">>} :
        /\ ~state.isSubmitting
        /\ state' = merge(state, [queryType |-> "bgp_route", queryGroup |-> "edge",
                                  queryTarget |-> "1.1.1.1", queryLocation |-> locs,
                                  isSubmitting |-> TRUE])
        /\ Call("submit", NoVal, NoVal)
        /\ UNCHANGED <<pending, batch>>

(* The query of one selected device is sent; v is what it will answer.     *)
Query ==
    \E d \in Devices : \E v \in ResponseValues :
        /\ formReady(state)
        /\ \E i \in 1..Len(state.queryLocation) : state.queryLocation[i] = d
        /\ d \notin DOMAIN batch
        /\ Cardinality(pending) < MaxPending
        /\ pending' = pending \cup {[dev |-> d, val |-> v, stale |-> FALSE]}
        /\ batch' = [x \in DOMAIN batch \cup {d} |-> IF x = d THEN v ELSE batch[x]]
        /\ Call("query", NoVal, NoVal)
        /\ UNCHANGED state

(* The answer of a query arrives and is written under its device's key.    *)
Deliver ==
    \E m \in pending :
        /\ state' = set(state, "responses",
                        [x \in DOMAIN state.responses \cup {m.dev} |->
                            IF x = m.dev THEN m.val ELSE state.responses[x]])
        /\ pending' = pending \ {m}
        /\ Call("deliver", m, NoVal)
        /\ UNCHANGED batch

Next ==
    \/ WriteField
    \/ WriteAvailableTypes
    \/ ResolvedOpen
    \/ ResolvedClose
    \/ ResetForm
    \/ FormReady
    \/ GetResponse
    \/ GetDirective
    \/ StateExporter
    \/ RenderPath
    \/ SubmitForm
    \/ Query
    \/ Deliver

Spec == Init /\ [][Next]_vars

(* The form: its fields are written, submitted, tested and reset.          *)
NextForm == WriteFormField \/ ResolvedOpen \/ ResolvedClose \/ FormReady \/ ResetForm

SpecForm == Init /\ [][NextForm]_vars

(* Every field is written and the form is reset.                           *)
NextFields == WriteField \/ ResetForm

SpecFields == Init /\ [][NextFields]_vars

(* Queries are submitted and answered while the form may be reset.         *)
NextResponses == SubmitForm \/ Query \/ Deliver \/ ResetForm \/ GetResponse \/ RenderPath

SpecResponses == Init /\ [][NextResponses]_vars

(* The same without a reset.                                               *)
NextNoReset == SubmitForm \/ Query \/ Deliver \/ GetResponse

SpecNoReset == Init /\ [][NextNoReset]_vars

(* The catalogue of query types is written and searched.                   *)
NextDirective == WriteAvailableTypes \/ GetDirective \/ ResetForm

SpecDirective == Init /\ [][NextDirective]_vars

(* Values are exported while the popover opens and closes.                 *)
NextExport == StateExporter \/ ResolvedOpen \/ ResolvedClose

SpecExport == InitExport /\ [][NextExport]_vars

-----------------------------------------------------------------------------
(* Properties.                                                             *)

Responses == state.responses
Keys == DOMAIN state.responses

FormFilled(s) ==
    /\ s.isSubmitting = TRUE
    /\ s.queryType # ""
    /\ s.queryGroup # ""
    /\ s.queryTarget # ""
    /\ Len(s.queryLocation) >= 1

ReadyInputs == {"isSubmitting", "queryType", "queryGroup", "queryTarget", "queryLocation"}

(* C1: formReady() is true exactly when isSubmitting is true, queryType,   *)
(* queryGroup and queryTarget are non-empty and queryLocation has an       *)
(* element; no other field, queryVrf included, changes the result.         *)
C1_FormReadyIff ==
    /\ formReady(state) <=> FormFilled(state)
    /\ \A f \in Fields \ ReadyInputs : \A v \in FieldValues(f) :
           formReady(set(state, f, v)) = formReady(state)
    /\ op = "formReady" => ret = FormFilled(state)

C1_Witness == op = "formReady" /\ ret = TRUE /\ state.queryVrf = ""

(* C2: getResponse(d) is the not-found value when d is no key of           *)
(* responses and the value stored under d when it is; it never throws.     *)
C2_GetResponseLookup ==
    op = "getResponse" =>
        /\ ret # Thrown
        /\ arg \notin Keys => ret = Null
        /\ arg \in Keys => ret = Responses[arg]

C2_Witness ==
    /\ op = "getResponse"
    /\ arg \in Keys
    /\ ret = Response("request timed out", "danger")
    /\ Keys # Devices

(* C3: the result of getResponse for an absent key differs from the result *)
(* for a present key, whatever is stored there (null included), and the    *)
(* Path view shows the skeleton exactly when the key is absent.            *)
C3_AbsentDistinctFromPresent ==
    /\ \A d1 \in Devices \ Keys : \A d2 \in Keys :
           getResponse(state, d1) # getResponse(state, d2)
    /\ \A d \in Devices : Path(state, d) = "Skeleton" <=> d \notin Keys

DefaultSnapshot(s) ==
    /\ \A f \in {"queryTarget", "queryGroup", "queryType", "queryVrf", "displayTarget"} :
           s[f] = ""
    /\ \A f \in {"queryLocation", "families", "availableGroups", "availableTypes",
                 "availVrfs"} : s[f] = <<>>
    /\ s.selections.queryLocation = <<>>
    /\ \A f \in {"queryType", "queryVrf", "queryGroup"} : s.selections[f] = Null
    /\ DOMAIN s.responses = {}
    /\ \A f \in {"isSubmitting", "btnLoading", "resolvedIsOpen"} : s[f] = FALSE
    /\ \A f \in Fields \ {"directive"} : s[f] = LGState[f]

(* C4: resetForm() leaves every field but directive at its initial value   *)
(* (strings empty, sequences empty, selections empty, no responses, flags  *)
(* false) and leaves directive as it was.                                  *)
C4_ResetRestoresDefaults ==
    [][op' = "resetForm" => DefaultSnapshot(state') /\ state'.directive = state.directive]_vars

C4_Witness ==
    /\ op = "resetForm"
    /\ prev = "set"
    /\ state.directive # Null
    /\ DefaultSnapshot(state)

(* C5: a formReady() called right after resetForm() returns false.         *)
C5_ResetThenNotReady ==
    /\ op = "resetForm" => ~formReady(state)
    /\ (op = "formReady" /\ prev = "resetForm") => ret = FALSE

C5_Witness == op = "formReady" /\ prev = "resetForm" /\ ret = FALSE /\ Keys = {}

(* C6: at first getResponse(d) is not-found for every device; after a      *)
(* write of v under d it is v; after a resetForm() no key is left and it   *)
(* is not-found for every device again.                                    *)
C6_ResponseLifecycle ==
    /\ op = "init" => \A d \in Devices : getResponse(state, d) = Null
    /\ op = "deliver" => getResponse(state, arg.dev) = arg.val
    /\ op = "resetForm" => Keys = {} /\ \A d \in Devices : getResponse(state, d) = Null

C6_Witness ==
    /\ op = "resetForm"
    /\ prev = "deliver"
    /\ \A d \in Devices : getResponse(state, d) = Null

DirectiveFound(s, name, r) ==
    LET idx == {i \in 1..Len(s.availableTypes) : s.availableTypes[i].id = name}
    IN  /\ r # Thrown
        /\ idx = {} => r = Null
        /\ idx # {} => \E i \in idx :
                          /\ \A j \in idx : i <= j
                          /\ r # Null
                          /\ r.path = i - 1
                          /\ r.value = s.availableTypes[i]

(* C7: getDirective(name) is not-found when no entry of availableTypes has *)
(* the id name, and otherwise the entry of lowest index that has it; it    *)
(* neither throws nor changes the store.                                   *)
C7_GetDirectiveFirstMatch ==
    [][op' = "getDirective" => DirectiveFound(state', arg', ret') /\ state' = state]_vars

C7_Witness ==
    /\ op = "getDirective"
    /\ Cardinality({i \in 1..Len(state.availableTypes) :
                       state.availableTypes[i].id = arg}) = 2
    /\ ret # Null
    /\ ret.path = 1

RECURSIVE PlainData(_), SelfReferencing(_)

PlainData(x) ==
    CASE x.t \in {"null", "bool", "num", "str"} -> TRUE
      [] x.t = "arr" -> \A i \in 1..Len(x.v) : PlainData(x.v[i])
      [] x.t = "obj" -> \A i \in 1..Len(x.v) : PlainData(x.v[i][2])
      [] OTHER -> FALSE

SelfReferencing(x) ==
    CASE x.t = "cyclic" -> TRUE
      [] x.t = "arr" -> \E i \in 1..Len(x.v) : SelfReferencing(x.v[i])
      [] x.t = "obj" -> \E i \in 1..Len(x.v) : SelfReferencing(x.v[i][2])
      [] OTHER -> FALSE

ExporterContract(x, r) ==
    /\ r # Thrown
    /\ x = Null => r = Null
    /\ SelfReferencing(x) => r = Null
    /\ PlainData(x) => r = x

(* C8: stateExporter never throws; it returns null for null and for a      *)
(* value that holds a reference to itself, a copy equal to the input for   *)
(* plain data, and it leaves the store alone.                              *)
C8_StateExporterTotal ==
    [][op' = "stateExporter" => ExporterContract(arg', ret') /\ state' = state]_vars

C8_Witness ==
    /\ op = "stateExporter"
    /\ arg.t = "obj"
    /\ SelfReferencing(arg)
    /\ ret = Null
    /\ state.resolvedIsOpen

(* C9: a response that arrives after the form was reset is written all the *)
(* same, and getResponse returns it.                                       *)
C9_LateWriteApplied ==
    (op = "deliver" /\ arg.stale) =>
        /\ arg.dev \in Keys
        /\ getResponse(state, arg.dev) = arg.val

C9_Witness ==
    /\ op = "deliver"
    /\ arg.stale
    /\ arg.val # Null
    /\ ~state.isSubmitting
    /\ \A f \in Fields \ {"responses"} : state[f] = LGState[f]
    /\ pending = {}
    /\ getResponse(state, arg.dev) = arg.val

WriteIsLocal ==
    /\ \A d \in Devices \ {arg'.dev} :
           /\ d \in DOMAIN state'.responses <=> d \in Keys
           /\ d \in Keys => state'.responses[d] = Responses[d]
    /\ \A f \in Fields \ {"responses"} : state'[f] = state[f]

AnsweredAsWritten ==
    \A d \in DOMAIN batch :
        (\A m \in pending : m.dev # d) => getResponse(state, d) = batch[d]

(* C10: a write under one device's key changes nothing else, and without a *)
(* reset every answered device reads back the value written for it, in     *)
(* whatever order the answers arrived.                                     *)
C10_WritesDoNotConflict ==
    [][(op' = "deliver" => WriteIsLocal) /\ AnsweredAsWritten']_vars

C10_Witness ==
    /\ op = "deliver"
    /\ pending = {}
    /\ DOMAIN batch = Devices
    /\ batch["router1"] # batch["router2"]
    /\ \A d \in Devices : getResponse(state, d) = batch[d]

====
